---- MODULE Spec2Model ----
(***************************************************************************)
(* Site-configuration lifecycle manager of web_management (nginx vhosts):  *)
(* registry file, live and mirrored vhost files, enabled symlinks,         *)
(* backups, certificate and document-root directories, with every external *)
(* command free to fail.                                                    *)
(*                                                                         *)
(* A handler is one atomic action.  Its body is written in the order of    *)
(* the source as a composition of steps over a "world" record; each step   *)
(* returns the SET of worlds it can end in (command succeeded / failed),   *)
(* so an action enumerates exactly the executions of the handler.          *)
(***************************************************************************)
EXTENDS Integers, Sequences, FiniteSets, TLC

\* ------------------------------------------------------------------ bounds
MaxClock == 1      \* wall-clock seconds 0..MaxClock (timestamps)
MaxOps == 2        \* handler invocations per behaviour

\* --------------------------------------------------------------- constants
Domains == {"a.com", "b.com"}
CustomRoot == "/srv/www"
WEB_ROOT_BASE == "/var/www"
NGINX_CONF_DIR == "/etc/nginx/sites-available"
NGINX_ENABLED_DIR == "/etc/nginx/sites-enabled"
SSL_DIR == "/etc/nginx/ssl"

DefaultRoot(d) == WEB_ROOT_BASE \o "/" \o d
Roots == {DefaultRoot(d) : d \in Domains} \cup {CustomRoot}
LivePath(d) == NGINX_CONF_DIR \o "/" \o d
CertPath(d) == SSL_DIR \o "/" \o d \o "/fullchain.pem"
KeyPath(d) == SSL_DIR \o "/" \o d \o "/key.pem"

NoFile == <<>>                      \* a path with no file behind it
NoLink == ""                        \* no entry in sites-enabled
EmptyDict == [k \in {} |-> k]       \* the JSON object {}

VARIABLES
    reg,        \* sites.json: [ok |-> parses as JSON, data |-> domain -> record]
    live,       \* /etc/nginx/sites-available/<d>: rendered content or NoFile
    mirror,     \* configs/sites/<d>.conf: rendered content or NoFile
    link,       \* /etc/nginx/sites-enabled/<d>: symlink target or NoLink
    bak,        \* backups/configs: backup file name -> content
    ssl,        \* /etc/nginx/ssl/<d>: subset of {"dir", "fullchain.pem", "key.pem"}
    root,       \* document roots: path -> subset of {"dir", "index.html"}
    confDir,    \* /etc/nginx/sites-available exists
    templates,  \* template files present under templates/sites
    clock,      \* current second
    ops,        \* handlers invoked so far
    last        \* what the last handler did: op, arguments, result, commands issued

vars == <<reg, live, mirror, link, bak, ssl, root, confDir, templates,
          clock, ops, last>>

\* ------------------------------------------------------------ dict helpers
Get(rec, k, default) == IF k \in DOMAIN rec THEN rec[k] ELSE default
Put(dict, k, v) == [x \in DOMAIN dict \cup {k} |-> IF x = k THEN v ELSE dict[x]]
Del(dict, k) == [x \in DOMAIN dict \ {k} |-> dict[x]]
Pop(rec, k) == [x \in DOMAIN rec \ {k} |-> rec[x]]

\* ------------------------------------------------------------- the world
\* The world a handler runs in: the files, plus the handler's own progress
\* (commands issued so far, pending exception, value being returned, outcome
\* reported to the operator, statuses displayed by list_sites).
Cur ==
    [reg |-> reg, live |-> live, mirror |-> mirror, link |-> link, bak |-> bak,
     ssl |-> ssl, root |-> root, confDir |-> confDir, templates |-> templates,
     clock |-> clock,
     log |-> <<>>, exc |-> "", ret |-> "None", out |-> "", shown |-> EmptyDict]

Log(w, cmd, ok) == [w EXCEPT !.log = Append(@, <<cmd, ok>>)]
Ret(w, r, o) == [w EXCEPT !.ret = r, !.out = o]
Raise(w, e) == [w EXCEPT !.exc = e]

\* statement sequencing: a pending exception skips the rest
Then(S, F(_)) == UNION { IF w.exc # "" THEN {w} ELSE F(w) : w \in S }
\* try: S  except <types>: H
Catch(S, types, H(_)) ==
    UNION { IF w.exc \in types THEN H([w EXCEPT !.exc = ""]) ELSE {w} : w \in S }

AnyException == {"RuntimeError", "OSError", "ImportError", "AttributeError"}

\* --------------------------------------------------------- core/runner.py
\* run(cmd, check): the command either exits 0 and has its effect (eff is
\* the world after it) or exits nonzero and has none; can says whether exit 0
\* is possible at all in this world.  check turns nonzero into RuntimeError.
run(w, cmd, check, can, eff) ==
    (IF can THEN {Ret(Log(eff, cmd, TRUE), "0", "")} ELSE {})
    \cup {IF check THEN Raise(Log(w, cmd, FALSE), "RuntimeError")
                   ELSE Ret(Log(w, cmd, FALSE), "1", "")}

\* sudo_write(path, content): sudo tee; nonzero exit raises RuntimeError
sudo_write(w, cmd, can, eff) ==
    (IF can THEN {Log(eff, cmd, TRUE)} ELSE {})
    \cup {Raise(Log(w, cmd, FALSE), "RuntimeError")}

\* ------------------------------------------------- storage/sites_repo.py
\* (variant) load that hands the file's records on as they are
load_sites_config_raw(w) ==
    IF ~w.reg.ok THEN EmptyDict ELSE w.reg.data

load_sites_config(w) ==
    IF ~w.reg.ok THEN EmptyDict
    ELSE [d \in DOMAIN w.reg.data |-> Pop(w.reg.data[d], "enabled")]

\* (variant) save that writes the dict it is given as it is
save_sites_config_raw(w, config) ==
    { Ret(Log([w EXCEPT !.reg = [ok |-> TRUE, data |-> config]],
              "write sites.json", TRUE), "True", ""),
      Ret(Log(w, "write sites.json", FALSE), "False", ""),
      Ret(Log([w EXCEPT !.reg = [ok |-> FALSE, data |-> EmptyDict]],
              "write sites.json", FALSE), "False", "") }

\* the three ends of save: written, open() failed (file untouched), write
\* failed after open() truncated the file (no longer parses)
save_sites_config(w, config) ==
    LET clean_config == [d \in DOMAIN config |-> Pop(config[d], "enabled")]
    IN  { Ret(Log([w EXCEPT !.reg = [ok |-> TRUE, data |-> clean_config]],
                  "write sites.json", TRUE), "True", ""),
          Ret(Log(w, "write sites.json", FALSE), "False", ""),
          Ret(Log([w EXCEPT !.reg = [ok |-> FALSE, data |-> EmptyDict]],
                  "write sites.json", FALSE), "False", "") }

\* ------------------------------------------------------ nginx/service.py
test_nginx_config(w) ==
    Catch(Then(run(w, "nginx -t", TRUE, TRUE, w), LAMBDA w1 : {Ret(w1, "True", "")}),
          {"RuntimeError"}, LAMBDA w1 : {Ret(w1, "False", "")})

\* (variant) reload that does not look at the result of the syntax check
reload_nginx_unchecked(w) ==
    Then(test_nginx_config(w), LAMBDA w1 :
      Catch(Then(run(w1, "systemctl reload nginx", TRUE, TRUE, w1),
                 LAMBDA w2 : {Ret(w2, "True", "")}),
            {"RuntimeError"}, LAMBDA w2 : {Ret(w2, "False", "")}))

\* (variant) reload that reports success although systemctl failed
reload_nginx_optimistic(w) ==
    Then(test_nginx_config(w), LAMBDA w1 :
      IF w1.ret # "True" THEN {Ret(w1, "False", "")}
      ELSE Catch(Then(run(w1, "systemctl reload nginx", TRUE, TRUE, w1),
                      LAMBDA w2 : {Ret(w2, "True", "")}),
                 {"RuntimeError"}, LAMBDA w2 : {Ret(w2, "True", "")}))

reload_nginx(w) ==
    Then(test_nginx_config(w), LAMBDA w1 :
      IF w1.ret # "True" THEN {Ret(w1, "False", "")}
      ELSE Catch(Then(run(w1, "systemctl reload nginx", TRUE, TRUE, w1),
                      LAMBDA w2 : {Ret(w2, "True", "")}),
                 {"RuntimeError"}, LAMBDA w2 : {Ret(w2, "False", "")}))

\* -------------------------------------------------------- nginx/sites.py
\* Path.exists() follows the symlink: a link whose target is gone does not exist
PathExists(w, p) == \E e \in Domains : p = LivePath(e) /\ w.live[e] # NoFile
\* (variant) existence test that does not follow the link (lexists)
LinkExists_lexists(w, d) == w.link[d] # NoLink

LinkExists(w, d) == w.link[d] # NoLink /\ PathExists(w, w.link[d])
IsSymlink(w, d) == w.link[d] # NoLink

\* (variant) status taken from the record's 'enabled' flag when it has one
is_site_enabled_from_registry(w, d) ==
    IF w.reg.ok /\ d \in DOMAIN w.reg.data /\ "enabled" \in DOMAIN w.reg.data[d]
    THEN w.reg.data[d]["enabled"]
    ELSE LinkExists(w, d) /\ IsSymlink(w, d)

is_site_enabled(w, d) == LinkExists(w, d) /\ IsSymlink(w, d)

RmLink(w, d) == [w EXCEPT !.link[d] = NoLink]
\* ln -s cannot succeed over an existing directory entry
CanLn(w, d) == w.link[d] = NoLink
\* (variant) ln -s with the project mirror as its target
MkLink_mirror(w, d) == [w EXCEPT !.link[d] = "configs/sites/" \o d \o ".conf"]

MkLink(w, d) == [w EXCEPT !.link[d] = LivePath(d)]

\* (variant) rollback of enable with the was_enabled test inverted
EnableRollback_inverted(w, d, was_enabled) ==
    IF was_enabled
    THEN run(w, "rm -f link (rollback)", FALSE, TRUE, RmLink(w, d))
    ELSE {w}

\* (variant) rollback of enable that removes the link in every case
EnableRollback_always(w, d, was_enabled) ==
    run(w, "rm -f link (rollback)", FALSE, TRUE, RmLink(w, d))

\* the rollback of enable: remove the new link unless the site was enabled
EnableRollback(w, d, was_enabled) ==
    IF ~was_enabled
    THEN run(w, "rm -f link (rollback)", FALSE, TRUE, RmLink(w, d))
    ELSE {w}

enable_site_with_rollback(w, d) ==
    IF w.live[d] = NoFile THEN {Ret(w, "False", "ConfigMissing")}
    ELSE
    LET was_enabled == is_site_enabled(w, d)
        Rollback(x) == EnableRollback(x, d, was_enabled)
    IN
    Catch(
      Then(IF LinkExists(w, d)
           THEN run(w, "rm -f link", TRUE, TRUE, RmLink(w, d)) ELSE {w},
      LAMBDA w1 :
      Then(run(w1, "ln -s", TRUE, CanLn(w1, d), MkLink(w1, d)),
      LAMBDA w2 :
      Then(test_nginx_config(w2),
      LAMBDA w3 :
        IF w3.ret # "True"
        THEN Then(Rollback(w3), LAMBDA w4 : {Ret(w4, "False", "ValidationFailed")})
        ELSE
      Then(reload_nginx(w3),
      LAMBDA w5 :
        IF w5.ret # "True"
        THEN Then(Rollback(w5), LAMBDA w6 : {Ret(w6, "False", "ServiceActionFailed")})
        ELSE {Ret(w5, "True", "enabled")})))),
      {"RuntimeError"},
      LAMBDA w7 :
        Then(IF ~was_enabled /\ LinkExists(w7, d)
             THEN run(w7, "rm -f link (rollback)", FALSE, TRUE, RmLink(w7, d))
             ELSE {w7},
        LAMBDA w8 : {Ret(w8, "False", "ServiceActionFailed")}))

\* (variant) rollback of disable that links the project mirror instead
DisableRollback_mirror(w, d) ==
    run(w, "ln -s (rollback)", FALSE, CanLn(w, d),
        [w EXCEPT !.link[d] = "configs/sites/" \o d \o ".conf"])

\* the rollback of disable: link the live config again
DisableRollback(w, d) ==
    run(w, "ln -s (rollback)", FALSE, CanLn(w, d), MkLink(w, d))

disable_site_with_rollback(w, d) ==
    IF ~LinkExists(w, d) THEN {Ret(w, "False", "NotEnabled")}
    ELSE
    LET backup_state == is_site_enabled(w, d)
        Rollback(x) == DisableRollback(x, d)
    IN
    Catch(
      Then(run(w, "rm -f link", TRUE, TRUE, RmLink(w, d)),
      LAMBDA w1 :
      Then(test_nginx_config(w1),
      LAMBDA w2 :
        IF w2.ret # "True"
        THEN Then(Rollback(w2), LAMBDA w3 : {Ret(w3, "False", "ValidationFailed")})
        ELSE
      Then(reload_nginx(w2),
      LAMBDA w4 :
        IF w4.ret # "True"
        THEN Then(Rollback(w4), LAMBDA w5 : {Ret(w5, "False", "ServiceActionFailed")})
        ELSE {Ret(w4, "True", "disabled")}))),
      {"RuntimeError"},
      LAMBDA w6 :
        Then(IF ~LinkExists(w6, d) /\ backup_state THEN Rollback(w6) ELSE {w6},
        LAMBDA w7 : {Ret(w7, "False", "ServiceActionFailed")}))


\* A config text is the sequence of its pieces; a template is a text some
\* of whose pieces are the placeholders of str.format.
PhpFragment == "location ~ \\.php$ { fastcgi_pass unix:/run/php/php-fpm.sock; }"

\* the template generate_nginx_config falls back on when the file is missing
BuiltinTemplate ==
    <<"server { listen 80; server_name ", "{domain}", "; root ", "{root_dir}",
      "; index index.html index.php; location / { try_files $uri $uri/ =404; }",
      "{php_config}", "}">>

\* templates/sites/site.conf.template
PlainTemplate ==
    <<"# generated at ", "{generated_at}",
      "server { listen 80; server_name ", "{domain}", "; root ", "{root_dir}", ";",
      "{php_config}", "}">>

\* templates/sites/site-ssl.conf.template
TlsTemplate ==
    <<"# generated at ", "{generated_at}",
      "server { listen 443 ssl; server_name ", "{domain}", "; root ", "{root_dir}",
      "; ssl_certificate ", "{ssl_cert}", "; ssl_certificate_key ", "{ssl_key}", ";",
      "{php_config}", "}">>

\* the named fields format() is given
Placeholders ==
    {"{domain}", "{root_dir}", "{php_config}", "{generated_at}", "{ssl_cert}", "{ssl_key}"}

\* template.format(**fields): every placeholder gives way to its value
format(template, fields) ==
    [i \in DOMAIN template |->
       IF template[i] \in DOMAIN fields THEN fields[template[i]] ELSE template[i]]

\* (variant) the TLS template chosen on the flag alone
template_file_flag_only(config) ==
    IF Get(config, "enable_ssl", FALSE)
    THEN "site-ssl.conf.template" ELSE "site.conf.template"

\* the template file generate_nginx_config selects
template_file(config) ==
    IF /\ Get(config, "enable_ssl", FALSE)
       /\ Get(config, "ssl_cert", "") # ""
       /\ Get(config, "ssl_key", "") # ""
    THEN "site-ssl.conf.template" ELSE "site.conf.template"

\* (variant) the template file is read without looking whether it exists
TemplateText_unchecked(w, file) ==
    IF file = "site-ssl.conf.template" THEN TlsTemplate ELSE PlainTemplate

\* the text of the selected template, or the built-in one
TemplateText(w, file) ==
    IF file \notin w.templates THEN BuiltinTemplate
    ELSE IF file = "site-ssl.conf.template" THEN TlsTemplate ELSE PlainTemplate

\* (variant) the PHP block is substituted whatever enable_php says
php_config_always(config) == PhpFragment

php_config(config) == IF Get(config, "enable_php", FALSE) THEN PhpFragment ELSE ""

generate_nginx_config(w, d, config) ==
    format(TemplateText(w, template_file(config)),
           [p \in Placeholders |->
              CASE p = "{domain}" -> d
                [] p = "{root_dir}" -> Get(config, "root_dir", DefaultRoot(d))
                [] p = "{php_config}" -> php_config(config)
                [] p = "{generated_at}" -> ToString(w.clock)
                [] p = "{ssl_cert}" -> Get(config, "ssl_cert", "")
                [] p = "{ssl_key}" -> Get(config, "ssl_key", "")])

\* ------------------------------------------------------ core/rollback.py
BackupName(d, ts) == d \o ".backup." \o ToString(ts)

\* (variant) snapshot that lets the failure of its copy propagate
backup_config_file_raising(w, d) ==
    IF w.live[d] = NoFile THEN {Ret(w, "None", "")}
    ELSE Then(run(w, "cp live backup", TRUE, TRUE,
                  [w EXCEPT !.bak = Put(@, BackupName(d, w.clock), w.live[d])]),
              LAMBDA w1 : {Ret(w1, BackupName(d, w.clock), "")})

\* returns (in ret) the backup path, or "None"
backup_config_file(w, d) ==
    IF w.live[d] = NoFile THEN {Ret(w, "None", "")}
    ELSE
    LET backup_file == BackupName(d, w.clock)
    IN  Catch(Then(run(w, "cp live backup", TRUE, TRUE,
                       [w EXCEPT !.bak = Put(@, backup_file, w.live[d])]),
                   LAMBDA w1 : {Ret(w1, backup_file, "")}),
              {"RuntimeError"}, LAMBDA w1 : {Ret(w1, "None", "")})

\* (variant) restore with the copy's arguments swapped
restore_config_file_swapped(w, backup_file, d) ==
    IF backup_file \in DOMAIN w.bak
    THEN run(w, "cp backup live", TRUE, w.confDir,
             [w EXCEPT !.bak[backup_file] = w.live[d]])
    ELSE {w}

restore_config_file(w, backup_file, d) ==
    IF backup_file = "None" THEN {Raise(w, "AttributeError")}
    ELSE IF backup_file \in DOMAIN w.bak
    THEN run(w, "cp backup live", TRUE, w.confDir,
             [w EXCEPT !.live[d] = w.bak[backup_file]])
    ELSE {w}

\* -------------------------------------------------------- nginx/sites.py
save_nginx_config(w, d, config_content) ==
    Then(IF w.live[d] # NoFile THEN backup_config_file(w, d) ELSE {Ret(w, "None", "")},
    LAMBDA w0 :
    LET backup_file == w0.ret
        HaveBackup(x) == backup_file # "None" /\ backup_file \in DOMAIN x.bak
    IN
    Catch(
      \* open(project_config_file, 'w') and write
      Then({Log([w0 EXCEPT !.mirror[d] = config_content], "write mirror", TRUE),
            Raise(Log(w0, "write mirror", FALSE), "OSError")},
      LAMBDA w1 :
      Then(IF ~w1.confDir
           THEN run(w1, "mkdir -p sites-available", TRUE, TRUE,
                    [w1 EXCEPT !.confDir = TRUE])
           ELSE {w1},
      LAMBDA w2 :
      Then(sudo_write(w2, "tee live", w2.confDir,
                      [w2 EXCEPT !.live[d] = config_content]),
      LAMBDA w3 :
      Then(test_nginx_config(w3),
      LAMBDA w4 :
        IF w4.ret # "True"
        THEN Then(IF HaveBackup(w4) THEN restore_config_file(w4, backup_file, d)
                  ELSE {w4},
                  LAMBDA w5 : {Ret(w5, "False", "ValidationFailed")})
        ELSE {Ret(w4, "True", "")})))),
      AnyException,
      LAMBDA w6 :
        Then(IF HaveBackup(w6) THEN restore_config_file(w6, backup_file, d)
             ELSE {w6},
             LAMBDA w7 : {Ret(w7, "False", "WriteFailed")})))

\* (variant) a record created as already secured
SiteConfig_secured(w, d, rootArg, enable_php) ==
    [domain |-> d,
     root_dir |-> IF rootArg = "" THEN DefaultRoot(d) ELSE rootArg,
     enable_php |-> enable_php,
     enable_ssl |-> TRUE,
     created_at |-> w.clock]

\* (variant) a record whose default root is fixed, not per domain
SiteConfig_base(w, d, rootArg, enable_php) ==
    [domain |-> d,
     root_dir |-> IF rootArg = "" THEN WEB_ROOT_BASE \o "/" \o "a.com" ELSE rootArg,
     enable_php |-> enable_php,
     enable_ssl |-> FALSE,
     created_at |-> w.clock]

\* the record add_site registers; rootArg = "" is "no root directory given"
SiteConfig(w, d, rootArg, enable_php) ==
    [domain |-> d,
     root_dir |-> IF rootArg = "" THEN DefaultRoot(d) ELSE rootArg,
     enable_php |-> enable_php,
     enable_ssl |-> FALSE,
     created_at |-> w.clock]

AddDir(w, r) == [w EXCEPT !.root[r] = @ \cup {"dir"}]
AddIndex(w, r) == [w EXCEPT !.root[r] = @ \cup {"index.html"}]
HasDir(w, r) == "dir" \in w.root[r]

\* (variant) provisioning whose except branch swallows the failure
provision_root_swallow(w, r) ==
    Catch(
      Then(run(w, "mkdir -p root", TRUE, TRUE, AddDir(w, r)),
      LAMBDA w2 :
      Then(run(w2, "chown -R root", TRUE, HasDir(w2, r), w2),
      LAMBDA w3 :
      Then(run(w3, "chmod 755 root", TRUE, HasDir(w3, r), w3),
      LAMBDA w4 :
        IF "index.html" \in w4.root[r] THEN {Ret(w4, "None", "")}
        ELSE
      Then(sudo_write(w4, "tee index.html", HasDir(w4, r), AddIndex(w4, r)),
      LAMBDA w5 :
      Then(run(w5, "chown index.html", TRUE, TRUE, w5),
      LAMBDA w6 : {Ret(w6, "None", "")}))))),
      {"RuntimeError"},
      LAMBDA w7 : {Ret(w7, "None", "")})

\* the try block of add_site: create the document root and its landing
\* page; ret = "False" when a command failed (the except branch)
provision_root(w, r) ==
    Catch(
      Then(run(w, "mkdir -p root", TRUE, TRUE, AddDir(w, r)),
      LAMBDA w2 :
      Then(run(w2, "chown -R root", TRUE, HasDir(w2, r), w2),
      LAMBDA w3 :
      Then(run(w3, "chmod 755 root", TRUE, HasDir(w3, r), w3),
      LAMBDA w4 :
        IF "index.html" \in w4.root[r] THEN {Ret(w4, "None", "")}
        ELSE
      Then(sudo_write(w4, "tee index.html", HasDir(w4, r), AddIndex(w4, r)),
      LAMBDA w5 :
      Then(run(w5, "chown index.html", TRUE, TRUE, w5),
      LAMBDA w6 : {Ret(w6, "None", "")}))))),
      {"RuntimeError"},
      LAMBDA w7 : {Ret(w7, "False", "ProvisioningFailed")})

\* add_site once the domain is known to be new
add_site_body(w, d, rootArg, enable_php, sites) ==
    LET site_config == SiteConfig(w, d, rootArg, enable_php)
    IN
    Then(save_nginx_config(w, d, generate_nginx_config(w, d, site_config)),
    LAMBDA w1 :
      IF w1.ret # "True" THEN {Ret(w1, "False", w1.out)}
      ELSE
    Then(provision_root(w1, site_config.root_dir),
    LAMBDA w8 :
      IF w8.ret = "False" THEN {w8}
      ELSE
    Then(save_sites_config(w8, Put(sites, d, site_config)),
    LAMBDA w9 :
      IF w9.ret = "True" THEN {Ret(w9, "True", "created")}
      ELSE {Ret(w9, "False", "RegistrySaveFailed")})))

\* (variant) add_site without the duplicate check
add_site_unchecked(w, d, rootArg, enable_php) ==
    add_site_body(w, d, rootArg, enable_php, load_sites_config(w))

add_site(w, d, rootArg, enable_php) ==
    LET sites == load_sites_config(w)
    IN  IF d \in DOMAIN sites THEN {Ret(w, "False", "DuplicateDomain")}
        ELSE add_site_body(w, d, rootArg, enable_php, sites)

list_sites(w) ==
    LET sites == load_sites_config(w)
    IN  IF DOMAIN sites = {} THEN {Ret(w, "None", "NoSites")}
        ELSE {[Ret(w, "None", "listed") EXCEPT
                 !.shown = [d \in DOMAIN sites |-> is_site_enabled(w, d)]]}

\* (variant) the document root goes without the question being asked
RemoveRoot_unasked(root_dir, answer) == root_dir # ""

\* "if root_dir:" and the answer to the question, stripped and lowered, is y
RemoveRoot(root_dir, answer) == root_dir # "" /\ answer = "y"

\* delete_site once the domain is known to be registered;
\* answer: what the operator types at the "delete the site directory?" prompt
delete_site_body(w, d, answer, sites) ==
    LET root_dir == Get(sites[d], "root_dir", "")
    IN
    Then(IF LinkExists(w, d)
         THEN run(w, "rm -f link", FALSE, TRUE, RmLink(w, d)) ELSE {w},
    LAMBDA w1 :
    Then(IF w1.live[d] # NoFile
         THEN run(w1, "rm -f live", FALSE, TRUE, [w1 EXCEPT !.live[d] = NoFile])
         ELSE {w1},
    LAMBDA w2 :
    \* project_config.unlink(): not through run, an OSError is not caught here
    Then(IF w2.mirror[d] # NoFile
         THEN {Log([w2 EXCEPT !.mirror[d] = NoFile], "unlink mirror", TRUE),
               Raise(Log(w2, "unlink mirror", FALSE), "OSError")}
         ELSE {w2},
    LAMBDA w3 :
    Then(IF "dir" \in w3.ssl[d]
         THEN run(w3, "rm -rf ssl", FALSE, TRUE, [w3 EXCEPT !.ssl[d] = {}])
         ELSE {w3},
    LAMBDA w4 :
    Then(IF RemoveRoot(root_dir, answer)
         THEN run(w4, "rm -rf root", FALSE, TRUE, [w4 EXCEPT !.root[root_dir] = {}])
         ELSE {w4},
    LAMBDA w5 :
    Then(save_sites_config(w5, Del(sites, d)),
    LAMBDA w6 :
    Then(test_nginx_config(w6),
    LAMBDA w7 :
      IF w7.ret # "True" THEN {Ret(w7, "False", "ValidationFailed")}
      ELSE Then(reload_nginx(w7), LAMBDA w8 : {Ret(w8, "True", "deleted")}))))))))

\* (variant) delete_site that goes on for a domain it does not know
delete_site_unchecked(w, d, answer) ==
    LET sites == load_sites_config(w)
    IN  delete_site_body(w, d, answer,
                         IF d \in DOMAIN sites THEN sites ELSE Put(sites, d, EmptyDict))

delete_site(w, d, answer) ==
    LET sites == load_sites_config(w)
    IN  IF d \notin DOMAIN sites THEN {Ret(w, "False", "UnknownDomain")}
        ELSE delete_site_body(w, d, answer, sites)

\* --------------------------------------------------------- nginx/ssl.py
\* (variant) only the flag is set, the certificate paths are forgotten
SecuredRecord_flag_only(rec, d) == [enable_ssl |-> TRUE] @@ rec

\* sites[domain] with the three SSL fields set
SecuredRecord(rec, d) ==
    [enable_ssl |-> TRUE, ssl_cert |-> CertPath(d), ssl_key |-> KeyPath(d)] @@ rec

\* the body of bind_ssl_to_site after its imports
bind_body(w, d) ==
    LET sites == load_sites_config(w)
    IN
    IF d \notin DOMAIN sites THEN {Ret(w, "None", "UnknownDomain")}
    ELSE IF Get(sites[d], "enable_ssl", FALSE) THEN {Ret(w, "None", "AlreadySecured")}
    ELSE IF ~({"fullchain.pem", "key.pem"} \subseteq w.ssl[d])
         THEN {Ret(w, "None", "CertificateFilesMissing")}
    ELSE
    LET rec == SecuredRecord(sites[d], d)
        sites2 == Put(sites, d, rec)
    IN
    Then(save_nginx_config(w, d, generate_nginx_config(w, d, rec)),
    LAMBDA w1 :
      IF w1.ret # "True" THEN {Ret(w1, "None", w1.out)}
      ELSE
    Then(save_sites_config(w1, sites2),
    LAMBDA w2 :
    Then(test_nginx_config(w2),
    LAMBDA w3 :
      IF w3.ret # "True" THEN {Ret(w3, "None", "ValidationFailed")}
      ELSE Then(reload_nginx(w3), LAMBDA w4 : {Ret(w4, "None", "bound")}))))

\* ~/.acme.sh missing: install and set up the client, outside any try
acme_setup(w) ==
    Then(run(w, "acme install", TRUE, TRUE, w), LAMBDA w1 :
    Then(run(w1, "acme register-account", TRUE, TRUE, w1), LAMBDA w2 :
    Then(run(w2, "acme set-default-ca", TRUE, TRUE, w2), LAMBDA w3 :
    Then(run(w3, "acme upgrade", TRUE, TRUE, w3), LAMBDA w4 :
         run(w4, "acme install-cronjob", TRUE, TRUE, w4)))))

\* the try block of apply_ssl: issue, install, render, write, persist, check
apply_ssl_try(w, d, sites) ==
    LET rec == SecuredRecord(sites[d], d)
    IN
    Catch(
      Then(run(w, "acme issue", TRUE, TRUE, w), LAMBDA w1 :
      Then(run(w1, "acme install-cert", TRUE, "dir" \in w1.ssl[d],
               [w1 EXCEPT !.ssl[d] = {"dir", "fullchain.pem", "key.pem"}]),
      LAMBDA w2 :
      \* the result of save_nginx_config is not looked at
      Then(save_nginx_config(w2, d, generate_nginx_config(w2, d, rec)), LAMBDA w3 :
      Then(save_sites_config(w3, Put(sites, d, rec)), LAMBDA w4 :
      Then(test_nginx_config(w4), LAMBDA w5 :
        IF w5.ret # "True" THEN {Ret(w5, "False", "ValidationFailed")}
        ELSE Then(reload_nginx(w5), LAMBDA w6 : {Ret(w6, "True", "secured")})))))),
      {"RuntimeError"},
      LAMBDA w7 : {Ret(w7, "False", "IssueFailed")})

\* acme_installed: whether ~/.acme.sh exists when the call is made
apply_ssl(w, d, acme_installed) ==
    LET sites == load_sites_config(w)
    IN
    IF d \notin DOMAIN sites THEN {Ret(w, "False", "UnknownDomain")}
    ELSE IF Get(sites[d], "enable_ssl", FALSE) THEN {Ret(w, "False", "AlreadySecured")}
    ELSE IF ~is_site_enabled(w, d) THEN {Ret(w, "False", "NotEnabled")}
    ELSE
    Then(IF acme_installed THEN {w} ELSE acme_setup(w), LAMBDA w1 :
    Then(run(w1, "mkdir -p ssl", TRUE, TRUE, [w1 EXCEPT !.ssl[d] = @ \cup {"dir"}]),
    LAMBDA w2 : apply_ssl_try(w2, d, sites)))

\* The function-local imports are relative ("from ..storage.sites_repo
\* import ...").  Started through main.py, nginx is a top-level package and
\* the import raises ImportError before anything else happens; loaded under
\* a parent package it resolves.  Either can be the case at a call.
RelativeImport(w) == {w, Raise(w, "ImportError")}

bind_ssl_to_site(w, d) ==
    Then(RelativeImport(w), LAMBDA w0 : bind_body(w0, d))

\* ------------------------------------------------------------- the machine
\* sites.json as nginx_manager.py (the earlier single-file tool, same path)
\* leaves it: its records carry 'enabled': False
LegacyRecord(d) ==
    [domain |-> d, root_dir |-> DefaultRoot(d), enable_php |-> FALSE,
     enable_ssl |-> FALSE, enabled |-> FALSE, created_at |-> 0]

LegacyDomain == "a.com"

\* last: the handler called and its argument, what it returned, reported and
\* raised, the commands it issued with their success, the statuses list_sites
\* displayed, and the domain's symlink as it was when the handler was called
NoOp == [op |-> "", domain |-> "", arg |-> "", ret |-> "None", out |-> "",
         exc |-> "", log |-> <<>>, shown |-> EmptyDict, val |-> EmptyDict,
         preLink |-> NoLink, preEnabled |-> FALSE]

\* how the machine is found at start-up: no site yet, or one site left by
\* nginx_manager.py, disabled or enabled
SiteTemplates == {"site.conf.template", "site-ssl.conf.template"}

InitKinds == {"fresh", "legacy", "legacy-enabled"}

Init ==
    /\ templates = SiteTemplates
    /\ \E kind \in InitKinds :
         LET legacy == kind # "fresh"
         IN
         /\ reg = [ok |-> TRUE,
                   data |-> IF legacy
                            THEN Put(EmptyDict, LegacyDomain, LegacyRecord(LegacyDomain))
                            ELSE EmptyDict]
         /\ live = [d \in Domains |->
                      IF legacy /\ d = LegacyDomain
                      THEN generate_nginx_config([templates |-> templates, clock |-> 0],
                                                 d, LegacyRecord(d))
                      ELSE NoFile]
         /\ root = [r \in Roots |->
                      IF legacy /\ r = DefaultRoot(LegacyDomain)
                      THEN {"dir", "index.html"} ELSE {}]
         /\ link = [d \in Domains |->
                      IF kind = "legacy-enabled" /\ d = LegacyDomain
                      THEN LivePath(d) ELSE NoLink]
         /\ confDir \in (IF legacy THEN {TRUE} ELSE BOOLEAN)
    /\ mirror = live
    /\ bak = EmptyDict
    /\ ssl = [d \in Domains |-> {}]
    /\ clock = 0
    /\ ops = 0
    /\ last = NoOp

Commit(w, op, d, arg) ==
    /\ reg' = w.reg /\ live' = w.live /\ mirror' = w.mirror /\ link' = w.link
    /\ bak' = w.bak /\ ssl' = w.ssl /\ root' = w.root /\ confDir' = w.confDir
    /\ ops' = ops + 1
    /\ last' = [op |-> op, domain |-> d, arg |-> arg,
                ret |-> IF w.exc = "" THEN w.ret ELSE "raised",
                out |-> IF w.exc = "" THEN w.out ELSE "",
                exc |-> w.exc, log |-> w.log, shown |-> w.shown, val |-> EmptyDict,
                preLink |-> IF d \in Domains THEN link[d] ELSE NoLink,
                preEnabled |-> d \in Domains /\ is_site_enabled(Cur, d)]
    /\ UNCHANGED <<templates, clock>>

AddSite ==
    /\ ops < MaxOps
    /\ \E d \in Domains, rootArg \in {"", CustomRoot}, enable_php \in BOOLEAN :
         \E w \in add_site(Cur, d, rootArg, enable_php) :
            Commit(w, "add_site", d, rootArg \o (IF enable_php THEN "+php" ELSE ""))

ListSites ==
    /\ ops < MaxOps
    /\ \E w \in list_sites(Cur) : Commit(w, "list_sites", "", "")

EnableSite ==
    /\ ops < MaxOps
    /\ \E d \in Domains :
         \E w \in enable_site_with_rollback(Cur, d) : Commit(w, "enable", d, "")

DisableSite ==
    /\ ops < MaxOps
    /\ \E d \in Domains :
         \E w \in disable_site_with_rollback(Cur, d) : Commit(w, "disable", d, "")

DeleteSite ==
    /\ ops < MaxOps
    /\ \E d \in Domains, answer \in {"y", "n"} :
         \E w \in delete_site(Cur, d, answer) : Commit(w, "delete", d, answer)

BindSsl ==
    /\ ops < MaxOps
    /\ \E d \in Domains :
         \E w \in bind_ssl_to_site(Cur, d) : Commit(w, "bind", d, "")

ApplySsl ==
    /\ ops < MaxOps
    /\ \E d \in Domains, acme_installed \in BOOLEAN :
         \E w \in apply_ssl(Cur, d, acme_installed) :
            Commit(w, "apply", d, IF acme_installed THEN "acme" ELSE "")

\* the service menu's "reload configuration"
ReloadNginx ==
    /\ ops < MaxOps
    /\ \E w \in reload_nginx(Cur) : Commit(w, "reload", "", "")

\* the ACME client or the operator leaves certificate files under SSL_DIR/<d>:
\* the certificate alone (installation interrupted) or certificate and key
PlaceCert ==
    /\ ops < MaxOps
    /\ \E d \in Domains, files \in {{"fullchain.pem"}, {"fullchain.pem", "key.pem"}} :
         /\ ssl[d] = {}
         /\ ssl' = [ssl EXCEPT ![d] = {"dir"} \cup files]
    /\ UNCHANGED <<reg, live, mirror, link, bak, root, confDir, templates,
                   clock, ops, last>>

Tick ==
    /\ ops < MaxOps
    /\ clock < MaxClock
    /\ clock' = clock + 1
    /\ UNCHANGED <<reg, live, mirror, link, bak, ssl, root, confDir, templates,
                   ops, last>>

Next ==
    \/ AddSite
    \/ ListSites
    \/ EnableSite
    \/ DisableSite
    \/ DeleteSite
    \/ BindSsl
    \/ ApplySsl
    \/ ReloadNginx
    \/ PlaceCert
    \/ Tick

Spec == Init /\ [][Next]_vars

\* ------------------------------------------- the registry boundary alone
\* load_sites_config and save_sites_config applied to any file content and
\* any dict: records with 'enabled' absent, true or false
RawRecord(d, e) ==
    IF e = "absent" THEN Pop(LegacyRecord(d), "enabled")
    ELSE [LegacyRecord(d) EXCEPT !["enabled"] = (e = "true")]

RawDicts ==
    UNION { { [d \in S |-> RawRecord(d, f[d])] : f \in [S -> {"absent", "true", "false"}] }
            : S \in SUBSET Domains }

RepoInit ==
    /\ reg \in {[ok |-> TRUE, data |-> c] : c \in RawDicts}
               \cup {[ok |-> FALSE, data |-> EmptyDict]}
    /\ live = [d \in Domains |-> NoFile]
    /\ mirror = live
    /\ link = [d \in Domains |-> NoLink]
    /\ bak = EmptyDict
    /\ ssl = [d \in Domains |-> {}]
    /\ root = [r \in Roots |-> {}]
    /\ confDir = TRUE
    /\ templates = SiteTemplates
    /\ clock = 0
    /\ ops = 0
    /\ last = NoOp

RepoLoad ==
    /\ last' = [NoOp EXCEPT !.op = "load", !.val = load_sites_config(Cur)]
    /\ UNCHANGED <<reg, live, mirror, link, bak, ssl, root, confDir, templates,
                   clock, ops>>

RepoSave ==
    /\ \E c \in RawDicts :
         \E w \in save_sites_config(Cur, c) :
            /\ reg' = w.reg
            /\ last' = [NoOp EXCEPT !.op = "save", !.val = c, !.ret = w.ret,
                                    !.log = w.log]
    /\ UNCHANGED <<live, mirror, link, bak, ssl, root, confDir, templates,
                   clock, ops>>

RepoNext ==
    \/ RepoLoad
    \/ RepoSave

SpecRepo == RepoInit /\ [][RepoNext]_vars

\* ------------------------------------- main and module configuration
\* The same file maps hold nginx.conf and the module file of conf.d; in
\* this part confDir is the existence of /etc/nginx/conf.d.
MainConf == "nginx.conf"
ModuleConf == "gzip.conf"
ConfFiles == {MainConf, ModuleConf}
MainTemplate == "nginx.conf.template"
ModuleTemplate == "gzip.conf.template"
ConfTemplates == {MainTemplate, ModuleTemplate}

\* the text of a template file, and the text a distribution installs
TemplateFileText(t) == <<"text of ", t>>
DistroText(f) == <<"distribution ", f>>
EmptyText == <<>>

\* (variant) a built-in default when the main template is missing
generate_main_config_default(w) ==
    IF MainTemplate \in w.templates THEN TemplateFileText(MainTemplate)
    ELSE DistroText(MainConf)

generate_main_config(w) ==
    IF MainTemplate \in w.templates THEN TemplateFileText(MainTemplate) ELSE EmptyText

generate_module_config(w, t) ==
    IF t \in w.templates THEN TemplateFileText(t) ELSE EmptyText

\* open(project_config_file, 'w') and write
WriteMirror(w, f, content) ==
    {Log([w EXCEPT !.mirror[f] = content], "write mirror", TRUE),
     Raise(Log(w, "write mirror", FALSE), "OSError")}

save_main_config(w, config_content) ==
    Then(IF w.live[MainConf] # NoFile THEN backup_config_file(w, MainConf)
         ELSE {Ret(w, "None", "")},
    LAMBDA w0 :
    LET backup_file == w0.ret
        HaveBackup(x) == backup_file # "None" /\ backup_file \in DOMAIN x.bak
        Restore(x) == IF HaveBackup(x) THEN restore_config_file(x, backup_file, MainConf)
                      ELSE {x}
    IN
    Catch(
      Then(WriteMirror(w0, MainConf, config_content), LAMBDA w1 :
      Then(sudo_write(w1, "tee live", TRUE, [w1 EXCEPT !.live[MainConf] = config_content]),
      LAMBDA w2 :
      Then(test_nginx_config(w2), LAMBDA w3 :
        IF w3.ret # "True"
        THEN Then(Restore(w3), LAMBDA w4 : {Ret(w4, "False", "ValidationFailed")})
        ELSE {Ret(w3, "True", "")}))),
      {"RuntimeError"},
      LAMBDA w5 : Then(Restore(w5), LAMBDA w6 : {Ret(w6, "False", "WriteFailed")})))

save_module_config(w, f, config_content) ==
    Then(Catch(Then(WriteMirror(w, f, config_content),
                    LAMBDA w1 : {Ret(w1, "None", "")}),
               AnyException, LAMBDA w1 : {Ret(w1, "False", "WriteFailed")}),
    LAMBDA w2 :
      IF w2.ret = "False" THEN {w2}
      ELSE
      Catch(
        Then(IF ~w2.confDir
             THEN run(w2, "mkdir -p conf.d", TRUE, TRUE, [w2 EXCEPT !.confDir = TRUE])
             ELSE {w2},
        LAMBDA w3 :
        Then(sudo_write(w3, "tee live", w3.confDir,
                        [w3 EXCEPT !.live[f] = config_content]),
        LAMBDA w4 : {Ret(w4, "True", "")})),
        {"RuntimeError"},
        LAMBDA w5 : {Ret(w5, "False", "WriteFailed")}))

\* after a save that returned True: test, then reload
TestAndReload(w, done) ==
    IF w.ret # "True" THEN {Ret(w, "None", w.out)}
    ELSE Then(test_nginx_config(w), LAMBDA w1 :
           IF w1.ret # "True" THEN {Ret(w1, "None", "ValidationFailed")}
           ELSE Then(reload_nginx(w1), LAMBDA w2 : {Ret(w2, "None", done)}))

\* config_management, "generate the main config from its template"
generate_main(w) ==
    LET config_content == generate_main_config(w)
    IN  IF config_content = EmptyText THEN {Ret(w, "None", "TemplateMissing")}
        ELSE Then(save_main_config(w, config_content),
                  LAMBDA w1 : TestAndReload(w1, "updated"))

\* config_management, "back up the main config"
backup_main(w) ==
    IF w.live[MainConf] = NoFile THEN {Ret(w, "None", "ConfigMissing")}
    ELSE Then(backup_config_file(w, MainConf), LAMBDA w1 :
           {Ret(w1, "None", IF w1.ret # "None" THEN "backed up" ELSE "BackupFailed")})

\* config_management, "install or update the module config"
install_module(w, f, t) ==
    LET config_content == generate_module_config(w, t)
    IN  IF config_content = EmptyText THEN {Ret(w, "None", "TemplateMissing")}
        ELSE Then(save_module_config(w, f, config_content),
                  LAMBDA w1 : TestAndReload(w1, "installed"))

\* config_management, "delete the module config", confirmed
delete_module(w, f) ==
    Then(IF w.live[f] # NoFile
         THEN run(w, "rm -f live", FALSE, TRUE, [w EXCEPT !.live[f] = NoFile])
         ELSE {w},
    LAMBDA w1 :
    Then(IF w1.mirror[f] # NoFile
         THEN {Log([w1 EXCEPT !.mirror[f] = NoFile], "unlink mirror", TRUE),
               Raise(Log(w1, "unlink mirror", FALSE), "OSError")}
         ELSE {w1},
    LAMBDA w2 : TestAndReload(Ret(w2, "True", ""), "deleted")))

ConfInit ==
    /\ reg = [ok |-> TRUE, data |-> EmptyDict]
    /\ live \in [ConfFiles -> {NoFile}] \cup {[f \in ConfFiles |-> DistroText(f)]}
                \cup {[f \in ConfFiles |-> IF f = MainConf THEN DistroText(f) ELSE NoFile]}
    /\ mirror = [f \in ConfFiles |-> NoFile]
    /\ link = [d \in Domains |-> NoLink]
    /\ bak = EmptyDict
    /\ ssl = [d \in Domains |-> {}]
    /\ root = [r \in Roots |-> {}]
    /\ confDir = (live[ModuleConf] # NoFile)
    /\ templates \in SUBSET ConfTemplates
    /\ clock = 0
    /\ ops = 0
    /\ last = NoOp

GenerateMain ==
    /\ ops < MaxOps
    /\ \E w \in generate_main(Cur) : Commit(w, "generate_main", MainConf, "")

BackupMain ==
    /\ ops < MaxOps
    /\ \E w \in backup_main(Cur) : Commit(w, "backup_main", MainConf, "")

InstallModule ==
    /\ ops < MaxOps
    /\ \E w \in install_module(Cur, ModuleConf, ModuleTemplate) :
         Commit(w, "install_module", ModuleConf, "")

DeleteModule ==
    /\ ops < MaxOps
    /\ \E w \in delete_module(Cur, ModuleConf) :
         Commit(w, "delete_module", ModuleConf, "")

ConfNext ==
    \/ GenerateMain
    \/ BackupMain
    \/ InstallModule
    \/ DeleteModule
    \/ Tick

SpecConf == ConfInit /\ [][ConfNext]_vars

\* --------------------------------------------------- the renderer alone
\* generate_nginx_config applied to any record: each field absent or set
OptionalField(k, values) == {EmptyDict} \cup {[x \in {k} |-> v] : v \in values}

RenderConfigs ==
    { a @@ b @@ c @@ e @@ f :
        a \in OptionalField("enable_ssl", BOOLEAN),
        b \in OptionalField("ssl_cert", {"", CertPath("a.com")}),
        c \in OptionalField("ssl_key", {"", KeyPath("a.com")}),
        e \in OptionalField("enable_php", BOOLEAN),
        f \in OptionalField("root_dir", {CustomRoot}) }

\* no site, no file: the machine before anything is installed
NothingInstalled ==
    /\ reg = [ok |-> TRUE, data |-> EmptyDict]
    /\ live = [d \in Domains |-> NoFile]
    /\ mirror = live
    /\ link = [d \in Domains |-> NoLink]
    /\ bak = EmptyDict
    /\ ssl = [d \in Domains |-> {}]
    /\ root = [r \in Roots |-> {}]
    /\ confDir = TRUE
    /\ clock = 0
    /\ ops = 0

RenderInit ==
    /\ NothingInstalled
    /\ templates \in SUBSET SiteTemplates
    /\ \E config \in RenderConfigs :
         last = [NoOp EXCEPT !.op = "config", !.domain = "a.com", !.val = config]

\* last.ret: the text returned
Render ==
    /\ last.op = "config"
    /\ last' = [last EXCEPT !.op = "render",
                            !.ret = generate_nginx_config(Cur, last.domain, last.val)]
    /\ UNCHANGED <<reg, live, mirror, link, bak, ssl, root, confDir, templates,
                   clock, ops>>

RenderNext == Render

SpecRender == RenderInit /\ [][RenderNext]_vars

\* ------------------------------------------- the registry as it is found
\* One site, a.com, left by an earlier run or by hand: its record with a
\* root_dir, with an empty one or with none, and sites.json readable or not
\* (reg.ok false: the text still holds the record but does not parse).
FoundRecords ==
    {LegacyRecord(LegacyDomain), Pop(LegacyRecord(LegacyDomain), "root_dir"),
     [LegacyRecord(LegacyDomain) EXCEPT !["root_dir"] = ""]}

FoundInit ==
    /\ templates = SiteTemplates
    /\ \E rec \in FoundRecords, readable \in BOOLEAN :
         /\ reg = [ok |-> readable, data |-> Put(EmptyDict, LegacyDomain, rec)]
         /\ live = [d \in Domains |->
                      IF d = LegacyDomain
                      THEN generate_nginx_config([templates |-> templates, clock |-> 0],
                                                 d, rec)
                      ELSE NoFile]
    /\ mirror \in {live, [d \in Domains |-> NoFile]}
    /\ link \in {[d \in Domains |-> NoLink],
                 [d \in Domains |-> IF d = LegacyDomain THEN LivePath(d) ELSE NoLink]}
    /\ root = [r \in Roots |->
                 IF r = DefaultRoot(LegacyDomain) THEN {"dir", "index.html"} ELSE {}]
    /\ bak = EmptyDict
    /\ ssl = [d \in Domains |-> {}]
    /\ confDir = TRUE
    /\ clock = 0
    /\ ops = 0
    /\ last = NoOp

FoundNext ==
    \/ AddSite
    \/ DeleteSite
    \/ Tick

SpecFound == FoundInit /\ [][FoundNext]_vars

\* ------------------------------------------------ core/rollback.py alone
\* The snapshot and restore functions called directly on a vhost file, with
\* writes of the live file between the calls.
MaxRollbackOps == 3
EditedText == <<"edited">>
BackupArgs == {"None"} \cup {BackupName(d, t) : d \in Domains, t \in 0..MaxClock}

RollbackInit ==
    /\ reg = [ok |-> TRUE, data |-> EmptyDict]
    /\ live \in [Domains -> {NoFile, DistroText("vhost")}]
    /\ mirror = [d \in Domains |-> NoFile]
    /\ link = [d \in Domains |-> NoLink]
    /\ bak = EmptyDict
    /\ ssl = [d \in Domains |-> {}]
    /\ root = [r \in Roots |-> {}]
    /\ confDir = TRUE
    /\ templates = {}
    /\ clock = 0
    /\ ops = 0
    /\ last = NoOp

Snapshot ==
    /\ ops < MaxRollbackOps
    /\ \E d \in Domains : \E w \in backup_config_file(Cur, d) :
         Commit(w, "backup", d, "")

Overwrite ==
    /\ ops < MaxRollbackOps
    /\ \E d \in Domains :
         \E w \in sudo_write(Cur, "tee live", confDir,
                             [Cur EXCEPT !.live[d] = EditedText]) :
           Commit(w, "write", d, "")

Restore ==
    /\ ops < MaxRollbackOps
    /\ \E d \in Domains, backup_file \in BackupArgs :
         \E w \in restore_config_file(Cur, backup_file, d) :
           Commit(w, "restore", d, backup_file)

RollbackNext ==
    \/ Snapshot
    \/ Overwrite
    \/ Restore
    \/ Tick

SpecRollback == RollbackInit /\ [][RollbackNext]_vars

\* ------------------------------------------------ save_nginx_config alone
\* save_nginx_config called directly, over a vhost file that exists or not
SaveConfig ==
    /\ ops < MaxOps
    /\ \E d \in Domains : \E w \in save_nginx_config(Cur, d, EditedText) :
         Commit(w, "save_config", d, "")

SaveNext ==
    \/ SaveConfig
    \/ Tick

SpecSave == RollbackInit /\ [][SaveNext]_vars

\* --------------------------------------------------- the runner alone
\* run(cmd, desc, check, sudo) of core/runner.py as a function of what the
\* child process does: it exits with a return code, or subprocess.run itself
\* raises (no such program, permission denied).
MaxArgs == 2
Words == {"cp", "x"}
Commands == UNION {[1..n -> Words] : n \in 0..MaxArgs}
ExitCodes == {0, 1, 2}
Outcomes == {[kind |-> "exit", returncode |-> c] : c \in ExitCodes}
              \cup {[kind |-> "error", e |-> "FileNotFoundError"]}

\* ' '.join(cmd)
RECURSIVE join(_)
join(cmd) ==
    IF cmd = <<>> THEN ""
    ELSE IF Len(cmd) = 1 THEN cmd[1]
    ELSE cmd[1] \o " " \o join(Tail(cmd))

\* (variant) a runner that raises whatever check says
run_call_unchecked(cmd, check, sudo, outcome) ==
    LET cmd1 == IF sudo THEN <<"sudo">> \o cmd ELSE cmd
    IN  IF outcome.kind = "exit"
        THEN IF outcome.returncode # 0
             THEN [raised |-> "RuntimeError", message |-> <<"failed: ", join(cmd1)>>]
             ELSE [raised |-> "", args |-> cmd1, returncode |-> outcome.returncode]
        ELSE [raised |-> "RuntimeError",
              message |-> <<"command failed: ", join(cmd1), " - ", outcome.e>>]

\* the call's result: the exception raised, with the pieces of its message,
\* or the CompletedProcess returned
run_call(cmd, check, sudo, outcome) ==
    LET cmd1 == IF sudo THEN <<"sudo">> \o cmd ELSE cmd
    IN  IF outcome.kind = "exit"
        THEN IF outcome.returncode # 0 /\ check
             THEN [raised |-> "RuntimeError", message |-> <<"failed: ", join(cmd1)>>]
             ELSE [raised |-> "", args |-> cmd1, returncode |-> outcome.returncode]
        ELSE IF check
             THEN [raised |-> "RuntimeError",
                   message |-> <<"command failed: ", join(cmd1), " - ", outcome.e>>]
             ELSE [raised |-> "", args |-> cmd1, returncode |-> 1]

RunInit ==
    /\ NothingInstalled
    /\ templates = {}
    /\ \E cmd \in Commands, check \in BOOLEAN, sudo \in BOOLEAN, outcome \in Outcomes :
         last = [NoOp EXCEPT !.op = "call",
                             !.val = [cmd |-> cmd, check |-> check, sudo |-> sudo,
                                      outcome |-> outcome]]

\* last.ret: the result of the call
Run ==
    /\ last.op = "call"
    /\ last' = [last EXCEPT !.op = "run",
                            !.ret = run_call(last.val.cmd, last.val.check,
                                             last.val.sudo, last.val.outcome)]
    /\ UNCHANGED <<reg, live, mirror, link, bak, ssl, root, confDir, templates,
                   clock, ops>>

RunNext == Run

SpecRun == RunInit /\ [][RunNext]_vars

\* ------------------------------------------------- the main loop, stepwise
\* main() reads a choice, calls the handler and reads the next choice only
\* after the handler has returned or raised.  Here a handler call is spread
\* over its steps: the call, the return of each external command it
\* launches, and its own return.  While a call is in progress last.op is
\* "running" and last.val holds the handler, the world it will leave (w) and
\* the number of its commands that have returned; the files change when the
\* handler returns.
ControllerOps == {"add_site", "enable", "disable", "delete", "bind"}

Args(op) ==
    CASE op = "add_site" -> {"", CustomRoot}
      [] op = "delete" -> {"y", "n"}
      [] OTHER -> {""}

Dispatch(w, op, d, arg) ==
    CASE op = "add_site" -> add_site(w, d, arg, FALSE)
      [] op = "enable" -> enable_site_with_rollback(w, d)
      [] op = "disable" -> disable_site_with_rollback(w, d)
      [] op = "delete" -> delete_site(w, d, arg)
      [] op = "bind" -> bind_ssl_to_site(w, d)

\* (variant) input read whether or not a handler is in progress
AtMenu_always == TRUE

\* control is at input(): no handler call is in progress
AtMenu == last.op # "running"

ReadChoice ==
    /\ AtMenu
    /\ ops < MaxOps
    /\ \E op \in ControllerOps, d \in Domains :
         \E arg \in Args(op) : \E w \in Dispatch(Cur, op, d, arg) :
           last' = [NoOp EXCEPT !.op = "running", !.domain = d, !.arg = arg,
                                !.val = [op |-> op, w |-> w, step |-> 0],
                                !.preLink = link[d],
                                !.preEnabled = is_site_enabled(Cur, d)]
    /\ ops' = ops + 1
    /\ UNCHANGED <<reg, live, mirror, link, bak, ssl, root, confDir, templates, clock>>

\* subprocess.run / communicate of the next command of the call returns
CommandReturns ==
    /\ last.op = "running"
    /\ last.val.step < Len(last.val.w.log)
    /\ last' = [last EXCEPT !.val.step = @ + 1,
                            !.log = Append(@, last.val.w.log[last.val.step + 1])]
    /\ UNCHANGED <<reg, live, mirror, link, bak, ssl, root, confDir, templates,
                   clock, ops>>

\* the handler returns, or raises into main()'s except clause
HandlerReturns ==
    /\ last.op = "running"
    /\ last.val.step = Len(last.val.w.log)
    /\ LET w == last.val.w
       IN  /\ reg' = w.reg /\ live' = w.live /\ mirror' = w.mirror /\ link' = w.link
           /\ bak' = w.bak /\ ssl' = w.ssl /\ root' = w.root /\ confDir' = w.confDir
           /\ last' = [last EXCEPT !.op = last.val.op,
                                   !.ret = IF w.exc = "" THEN w.ret ELSE "raised",
                                   !.out = IF w.exc = "" THEN w.out ELSE "",
                                   !.exc = w.exc, !.shown = w.shown,
                                   !.val = EmptyDict]
    /\ UNCHANGED <<templates, clock, ops>>

LoopNext ==
    \/ ReadChoice
    \/ CommandReturns
    \/ HandlerReturns

\* every command launched returns, and a handler whose commands have all
\* returned goes on to its own return
SpecLoop ==
    /\ Init
    /\ [][LoopNext]_vars
    /\ WF_vars(CommandReturns)
    /\ WF_vars(HandlerReturns)

\* ------------------------------------------------------------ properties
Cmds(l) == {l[i] : i \in DOMAIN l}
Did(cmd) == <<cmd, TRUE>> \in Cmds(last.log)
FailedCmd(cmd) == <<cmd, FALSE>> \in Cmds(last.log)
Issued(cmd) == Did(cmd) \/ FailedCmd(cmd)

\* the symlink for d exists and the file it points at exists
SymlinkResolves(d) ==
    link[d] # NoLink /\ \E e \in Domains : link[d] = LivePath(e) /\ live[e] # NoFile

HasEnabledKey(dict) == \E d \in DOMAIN dict : "enabled" \in DOMAIN dict[d]

SecuredIn(r, d) ==
    r.ok /\ d \in DOMAIN r.data /\ Get(r.data[d], "enable_ssl", FALSE)

CertAndKey(d) == {"fullchain.pem", "key.pem"} \subseteq ssl[d]

C2_CreatedRecord ==
    (last.op = "add_site" /\ last.ret = "True") =>
        LET d == last.domain
            sites == load_sites_config(Cur)
        IN  /\ d \in DOMAIN sites
            /\ "enable_ssl" \in DOMAIN sites[d] /\ sites[d]["enable_ssl"] = FALSE
            /\ reg.ok /\ d \in DOMAIN reg.data
            /\ "enabled" \notin DOMAIN reg.data[d]

C2_Witness ==
    /\ last.op = "add_site" /\ last.ret = "True"
    /\ last.domain \in DOMAIN load_sites_config(Cur)

\* C3: whatever sites.json holds, no record load_sites_config returns has an
\* 'enabled' key; whatever dict save_sites_config is given, no record of the
\* file it writes has one.
C3_NoEnabledAcrossBoundary ==
    /\ last.op = "load" => ~HasEnabledKey(last.val)
    /\ (last.op = "save" /\ Did("write sites.json")) =>
         reg.ok /\ ~HasEnabledKey(reg.data) /\ DOMAIN reg.data = DOMAIN last.val

\* save was given a dict with an 'enabled' key and wrote the file
C3_Witness ==
    last.op = "save" /\ Did("write sites.json") /\ HasEnabledKey(last.val)

Called(op) == ops' = ops + 1 /\ last'.op = op

\* C6: bind_ssl_to_site(d) for a registered, not yet secured d whose
\* certificate or key file is absent reports CertificateFilesMissing, writes
\* no config file and leaves the registry (enable_ssl false) as it was.
C6_MissingCertificate ==
    [][ (/\ Called("bind")
         /\ last'.domain \in DOMAIN load_sites_config(Cur)
         /\ ~SecuredIn(reg, last'.domain)
         /\ ~CertAndKey(last'.domain))
        => (/\ last'.out = "CertificateFilesMissing"
            /\ live' = live /\ mirror' = mirror /\ bak' = bak
            /\ reg' = reg /\ ~SecuredIn(reg', last'.domain)) ]_vars

\* C7: bind_ssl_to_site persists the SSL fields only after the config write,
\* the syntax checks and the reload all succeeded: sites.json is written
\* after a successful reload, and when one of those steps failed the record
\* of d still has enable_ssl false.
C7_PersistAfterReload ==
    last.op = "bind" =>
        /\ (\/ FailedCmd("write mirror") \/ FailedCmd("tee live")
            \/ FailedCmd("nginx -t") \/ FailedCmd("systemctl reload nginx"))
           => ~SecuredIn(reg, last.domain)
        /\ \A i \in DOMAIN last.log :
             last.log[i] = <<"write sites.json", TRUE>> =>
               \E j \in 1..(i - 1) : last.log[j] = <<"systemctl reload nginx", TRUE>>

\* C8: add_site(d) for a d in the registry reports DuplicateDomain, returns
\* False, issues no command and changes no file: registry, live configs,
\* mirrors, backups, document roots, certificate directories and symlinks.
C8_DuplicateChangesNothing ==
    [][ (Called("add_site") /\ last'.domain \in DOMAIN load_sites_config(Cur))
        => (/\ last'.out = "DuplicateDomain" /\ last'.ret = "False"
            /\ last'.log = <<>>
            /\ UNCHANGED <<reg, live, mirror, link, bak, ssl, root, confDir>>) ]_vars

C8_Witness ==
    /\ last.op = "add_site" /\ last.out = "DuplicateDomain"
    /\ last.domain \in DOMAIN load_sites_config(Cur)

ProvisioningCmds ==
    {"mkdir -p root", "chown -R root", "chmod 755 root", "tee index.html",
     "chown index.html"}

\* C10: add_site writes sites.json only after every provisioning step
\* succeeded; when a provisioning command fails it returns False without
\* writing the registry, and d is not in it.
C10_PersistAfterProvisioning ==
    last.op = "add_site" =>
        /\ (\E c \in ProvisioningCmds : FailedCmd(c)) =>
             /\ last.ret = "False"
             /\ ~Issued("write sites.json")
             /\ last.domain \notin DOMAIN load_sites_config(Cur)
        /\ Issued("write sites.json") =>
             /\ Did("mkdir -p root") /\ Did("chown -R root") /\ Did("chmod 755 root")
             /\ Issued("tee index.html") => Did("tee index.html") /\ Did("chown index.html")
             /\ \A i \in DOMAIN last.log :
                  last.log[i][1] \in ProvisioningCmds =>
                    \E j \in (i + 1)..Len(last.log) : last.log[j][1] = "write sites.json"

\* the config was written and validated, then a provisioning command failed
C10_Witness ==
    /\ last.op = "add_site" /\ Did("tee live") /\ Did("nginx -t")
    /\ Did("mkdir -p root") /\ FailedCmd("chmod 755 root")
    /\ last.domain \notin DOMAIN load_sites_config(Cur)

\* SymlinkResolves(d) in the state the handler leaves
EnabledAfter(d) ==
    link'[d] # NoLink /\ \E e \in Domains : link'[d] = LivePath(e) /\ live'[e] # NoFile

\* add_site was called without a root directory
NoRootGiven(arg) == arg \in {"", "+php"}

\* what a successful add_site(d) without a root directory does to the
\* registry and the config files
C11_Registered ==
    LET d == last'.domain
        sites == load_sites_config(Cur)
    IN  /\ d \notin DOMAIN sites
        /\ reg'.ok /\ DOMAIN reg'.data = DOMAIN sites \cup {d}
        /\ \A e \in DOMAIN sites : reg'.data[e] = sites[e]
        /\ reg'.data[d].root_dir = DefaultRoot(d)
        /\ live'[d] # NoFile /\ mirror'[d] # NoFile

AllCommandsPassed == \A i \in DOMAIN last.log : last.log[i][2]

\* positions in the handler's log at which cmd was issued
IssuedAt(cmd) == {i \in DOMAIN last.log : last.log[i][1] = cmd}

\* C12: when every check of enable(d) passes (the live config exists and no
\* command fails), enable returns True with the symlink of d pointing at
\* d's live vhost file, and "systemctl reload nginx" was issued exactly
\* once, after "ln -s" had created the symlink.
C12_EnableHappyPath ==
    (last.op = "enable" /\ last.out # "ConfigMissing" /\ AllCommandsPassed) =>
        /\ last.ret = "True"
        /\ link[last.domain] = LivePath(last.domain)
        /\ live[last.domain] # NoFile
        /\ Cardinality(IssuedAt("systemctl reload nginx")) = 1
        /\ \A i \in IssuedAt("systemctl reload nginx") :
             \E j \in 1..(i - 1) : last.log[j] = <<"ln -s", TRUE>>

\* a site that was not enabled has been enabled
C12_Witness ==
    /\ last.op = "enable" /\ last.ret = "True" /\ AllCommandsPassed
    /\ ~last.preEnabled /\ last.preLink = NoLink
    /\ Did("ln -s") /\ Did("systemctl reload nginx")
    /\ SymlinkResolves(last.domain)

\* what disable(d) does when it reports NotEnabled: no command, no change
C13_NothingDone ==
    /\ last'.ret = "False" /\ last'.log = <<>>
    /\ UNCHANGED <<reg, live, mirror, link, bak, ssl, root, confDir>>

\* disable(d) went on to remove the symlink
C13_Proceeds == last'.log # <<>> /\ last'.log[1][1] = "rm -f link"

C14_UnknownDomain ==
    [][ (Called("delete") /\ last'.domain \notin DOMAIN load_sites_config(Cur))
        => (/\ last'.out = "UnknownDomain" /\ last'.ret = "False"
            /\ last'.log = <<>>
            /\ UNCHANGED <<reg, live, mirror, link, bak, ssl, root, confDir>>) ]_vars

\* an unregistered domain that has a live config on disk was left alone
C14_Witness ==
    /\ last.op = "delete" /\ last.out = "UnknownDomain"
    /\ last.domain \notin DOMAIN load_sites_config(Cur)
    /\ live[last.domain] # NoFile

\* C15: delete_site(d) for a registered d always writes sites.json without
\* d, whatever the removal steps before it did, runs the final syntax check
\* and reload only after that write, and a failing final check does not
\* put d back.
C15_DeleteAlwaysUnregisters ==
    [][ (Called("delete") /\ last'.domain \in DOMAIN load_sites_config(Cur))
        => (/\ <<"write sites.json", TRUE>> \in Cmds(last'.log)
            /\ reg'.ok /\ last'.domain \notin DOMAIN reg'.data
            /\ \A i \in DOMAIN last'.log :
                 last'.log[i][1] \in {"nginx -t", "systemctl reload nginx"} =>
                   \E j \in 1..(i - 1) : last'.log[j] = <<"write sites.json", TRUE>>) ]_vars

\* C16: in delete_site(d) the removal steps are independent: each of the
\* symlink, the live config, the mirror config and the certificate
\* directory that is there when the call starts has its removal attempted,
\* whichever earlier step failed, and the call goes on to the registry.
C16_RemovalStepsIndependent ==
    [][ (Called("delete") /\ last'.domain \in DOMAIN load_sites_config(Cur))
        => LET d == last'.domain
               tried == {last'.log[i][1] : i \in DOMAIN last'.log}
           IN  /\ LinkExists(Cur, d) => "rm -f link" \in tried
               /\ live[d] # NoFile => "rm -f live" \in tried
               /\ mirror[d] # NoFile => "unlink mirror" \in tried
               /\ "dir" \in ssl[d] => "rm -rf ssl" \in tried
               /\ "write sites.json" \in tried
               /\ last'.exc = "" ]_vars

\* C17: in every handler, "systemctl reload nginx" is issued only right
\* after an "nginx -t" that passed (the one reload_nginx runs first); when
\* that check fails reload_nginx returns False and issues no reload.
C17_ReloadOnlyAfterCheck ==
    /\ \A i \in IssuedAt("systemctl reload nginx") :
         i > 1 /\ last.log[i - 1] = <<"nginx -t", TRUE>>
    /\ (last.op = "reload" /\ FailedCmd("nginx -t")) =>
         last.ret = "False" /\ ~Issued("systemctl reload nginx")

\* reload_nginx was refused by its syntax check
C17_Witness ==
    /\ last.op = "reload" /\ FailedCmd("nginx -t")
    /\ last.ret = "False" /\ ~Issued("systemctl reload nginx")

\* the handler reported failure
C18_ReportsFailure ==
    /\ last'.exc = ""
    /\ IF last'.op = "bind" THEN last'.out # "bound" ELSE last'.ret = "False"

\* C18: when a syntax check fails in add_site, enable, disable or
\* bind_ssl_to_site, the handler reports failure and what the failed gate
\* guards is as before the call (the content of d's live config for the
\* config-writing handlers, the presence of d's symlink for enable and
\* disable), with nothing of the operation committed to the registry.
C18_GateFailureRollsBack ==
    [][ (/\ ops' = ops + 1
         /\ last'.op \in {"add_site", "enable", "disable", "bind"}
         /\ <<"nginx -t", FALSE>> \in Cmds(last'.log))
        => LET d == last'.domain
           IN  /\ C18_ReportsFailure
               /\ last'.op \in {"add_site", "bind"} => live'[d] = live[d]
               /\ last'.op \in {"enable", "disable"} =>
                    ((link'[d] # NoLink) <=> (link[d] # NoLink))
               /\ load_sites_config(Cur) = load_sites_config(Cur)' ]_vars

\* C19: whenever save_nginx_config has returned (written, rolled back after
\* a failed check, or failed to write), the project mirror of the domain
\* has the content of its live config.
C19_MirrorLockstep ==
    (last.op \in {"add_site", "bind"} /\ Issued("write mirror") /\ last.exc = "") =>
        mirror[last.domain] = live[last.domain]

\* C20: a backup file, once created, keeps the content it was created
\* with, whatever snapshots, saves and rollbacks follow, also a second
\* snapshot of the same live file in the same second.
C20_BackupImmutable ==
    [][ \A b \in DOMAIN bak : b \in DOMAIN bak' /\ bak'[b] = bak[b] ]_vars

\* C22: when the copy of the snapshot fails, backup_config_file returns
\* None and raises nothing: the save goes straight on to write the mirror
\* and the live file, no exception leaves the handler, and no rollback copy
\* is run since there is no backup.
C22_SnapshotFailureContinues ==
    (last.op \in {"add_site", "bind", "apply"} /\ FailedCmd("cp live backup")) =>
        /\ last.exc = ""
        /\ \A i \in IssuedAt("cp live backup") :
             i < Len(last.log) /\ last.log[i + 1][1] = "write mirror"
        /\ ~Issued("cp backup live")
        /\ Did("tee live") => live[last.domain] = mirror[last.domain]

\* the snapshot failed, the live file was overwritten, the check then
\* failed and the overwritten file stayed
C22_Witness ==
    /\ last.op \in {"add_site", "bind", "apply"} /\ FailedCmd("cp live backup")
    /\ Did("tee live") /\ FailedCmd("nginx -t")
    /\ live[last.domain] = mirror[last.domain]

\* a value of a record's field that is set and not empty
NonEmptyField(rec, k) == k \in DOMAIN rec /\ rec[k] # ""

\* C28: in sites.json, every record with enable_ssl true has non-empty
\* ssl_cert and ssl_key, and every record with enable_ssl false (or
\* without the flag) has neither field.
C28_SslFieldsTogether ==
    reg.ok =>
      \A d \in DOMAIN reg.data :
        LET rec == reg.data[d]
        IN  IF Get(rec, "enable_ssl", FALSE)
            THEN NonEmptyField(rec, "ssl_cert") /\ NonEmptyField(rec, "ssl_key")
            ELSE "ssl_cert" \notin DOMAIN rec /\ "ssl_key" \notin DOMAIN rec

\* a secured record and an unsecured one side by side in sites.json
C28_Witness ==
    /\ reg.ok
    /\ \E d \in DOMAIN reg.data :
         /\ Get(reg.data[d], "enable_ssl", FALSE)
         /\ reg.data[d].ssl_cert = CertPath(d) /\ reg.data[d].ssl_key = KeyPath(d)
    /\ last.op \in {"bind", "apply"}

\* the handler that secures a site ended in success
C29_Succeeded ==
    /\ last'.exc = ""
    /\ IF last'.op = "bind" THEN last'.out = "bound" ELSE last'.ret = "True"

\* C29: the persisted enable_ssl of a domain goes from false to true only
\* in an apply_ssl or bind_ssl_to_site for that domain that ends in
\* success; when such a call fails the persisted enable_ssl is still false.
C29_SecuredOnlyOnSuccess ==
    [][ \A d \in Domains :
          (~SecuredIn(reg, d) /\ SecuredIn(reg', d))
          => (/\ ops' = ops + 1
              /\ last'.op \in {"bind", "apply"} /\ last'.domain = d
              /\ C29_Succeeded) ]_vars

\* the text was rendered from template t: its fixed pieces are t's
FromTemplate(text, t) ==
    /\ Len(text) = Len(t)
    /\ \A i \in DOMAIN t : t[i] \notin Placeholders => text[i] = t[i]

\* what the claim calls the TLS case
TlsRequested(config) ==
    /\ "enable_ssl" \in DOMAIN config /\ config["enable_ssl"]
    /\ "ssl_cert" \in DOMAIN config /\ config["ssl_cert"] # ""
    /\ "ssl_key" \in DOMAIN config /\ config["ssl_key"] # ""

\* C25: for every combination of enable_ssl, ssl_cert and ssl_key (each
\* absent or set), generate_nginx_config selects the TLS template exactly
\* when enable_ssl is true and both paths are non-empty, and the plain
\* template otherwise; the text is rendered from the selected file when
\* that file is there.
C25_TemplateSelection ==
    last.op = "render" =>
        LET selected == template_file(last.val)
        IN  /\ selected = IF TlsRequested(last.val)
                          THEN "site-ssl.conf.template" ELSE "site.conf.template"
            /\ selected \in templates =>
                 (FromTemplate(last.ret, TlsTemplate) <=> TlsRequested(last.val))
            /\ selected \in templates =>
                 (FromTemplate(last.ret, PlainTemplate) <=> ~TlsRequested(last.val))

\* enable_ssl requested without a key: the plain template is used
C25_Witness ==
    /\ last.op = "render" /\ templates = SiteTemplates
    /\ Get(last.val, "enable_ssl", FALSE) /\ Get(last.val, "ssl_cert", "") # ""
    /\ Get(last.val, "ssl_key", "") = ""
    /\ FromTemplate(last.ret, PlainTemplate)

\* how many times the PHP handler block stands in a text
PhpCount(text) == Cardinality({i \in DOMAIN text : text[i] = PhpFragment})

C21_SnapshotBeforeOverwrite ==
    [][ \A f \in ConfFiles :
          (ops' = ops + 1 /\ last'.domain = f) =>
            LET l == last'.log
            IN  /\ \A i \in DOMAIN l :
                     (l[i] = <<"tee live", TRUE>> /\ live[f] # NoFile)
                       => \E j \in 1..(i - 1) : l[j][1] = "cp live backup"
                /\ \A i \in DOMAIN l :
                     l[i][1] = "cp backup live"
                       => \E j \in 1..(i - 1) : l[j][2] = FALSE ]_vars

\* C27: when the template of the main config, or of the module, is absent,
\* rendering gives the empty text and the operation issues no command at
\* all: live file and project mirror stay as they were, nothing is reloaded,
\* and the caller is told that the template is missing.
C27_TemplateMissing ==
    [][ (/\ ops' = ops + 1
         /\ \/ last'.op = "generate_main" /\ MainTemplate \notin templates
            \/ last'.op = "install_module" /\ ModuleTemplate \notin templates)
        => (/\ last'.op = "generate_main" => generate_main_config(Cur) = EmptyText
            /\ last'.op = "install_module"
                 => generate_module_config(Cur, ModuleTemplate) = EmptyText
            /\ last'.log = <<>>
            /\ last'.out = "TemplateMissing"
            /\ UNCHANGED <<live, mirror, bak, confDir>>) ]_vars

C27_Witness ==
    /\ last.op = "generate_main"
    /\ MainTemplate \notin templates
    /\ live[MainConf] # NoFile
    /\ last.out = "TemplateMissing"

\* the child process of the call did not exit with 0, or was never started
RunFailed(call) ==
    IF call.outcome.kind = "exit" THEN call.outcome.returncode # 0 ELSE TRUE

\* C24: a call of run with check=True whose command exits nonzero or cannot
\* be launched raises RuntimeError with the joined command line (the sudo
\* prefix included) in its message; a call with check=False raises nothing
\* and, in those same cases, returns a result with a nonzero return code.
C24_CheckTurnsFailureIntoError ==
    last.op = "run" =>
      LET call == last.val
          line == join(IF call.sudo THEN <<"sudo">> \o call.cmd ELSE call.cmd)
      IN  /\ (call.check /\ RunFailed(call))
               => /\ last.ret.raised = "RuntimeError"
                  /\ line \in Cmds(last.ret.message)
          /\ ~call.check
               => /\ last.ret.raised = ""
                  /\ RunFailed(call) => last.ret.returncode # 0

C24_Witness ==
    /\ last.op = "run"
    /\ last.val.check /\ last.val.sudo /\ Len(last.val.cmd) = 2
    /\ last.val.outcome.kind = "error"
    /\ last.ret.raised = "RuntimeError"
    /\ "sudo cp x" \in Cmds(last.ret.message)

C30_RunsToCompletion ==
    /\ [][ops' = ops + 1 => last.op # "running"]_vars
    /\ (last.op = "running") ~> (last.op \in ControllerOps)

C30_Witness ==
    /\ ops = MaxOps
    /\ last.op = "enable"
    /\ last.ret = "False"
    /\ Len(last.log) >= 3

\* the handler's own syntax check passed and the reload after it failed: at
\* its second syntax check or at systemctl
ReloadFailed ==
    \E i, j \in DOMAIN last.log :
        /\ i < j
        /\ last.log[i] = <<"nginx -t", TRUE>>
        /\ last.log[j] \in {<<"nginx -t", FALSE>>, <<"systemctl reload nginx", FALSE>>}

C32_ReenableFailure ==
    (/\ last.op = "enable" /\ last.preEnabled
     /\ FailedCmd("nginx -t") \/ FailedCmd("systemctl reload nginx")) =>
        /\ last.ret = "False" /\ last.exc = ""
        /\ ~Issued("rm -f link (rollback)")
        /\ link[last.domain] = LivePath(last.domain)

C32_Witness ==
    /\ last.op = "enable" /\ last.preEnabled
    /\ Did("rm -f link") /\ Did("ln -s") /\ FailedCmd("nginx -t")
    /\ last.ret = "False"
    /\ link[last.domain] = LivePath(last.domain)

CmdsIssued == {last'.log[i][1] : i \in DOMAIN last'.log}

\* C34: delete_site(d) of a registered d changes a document root only when
\* the answer is y and the record has a root_dir, and then only that
\* directory; with another answer, or a record without root_dir, a call that
\* is not cut short by an exception leaves every document root as it was and
\* goes on to rewrite the registry and to check the configuration.
C34_RootOnlyOnConfirmation ==
    [][ (Called("delete") /\ last'.domain \in DOMAIN load_sites_config(Cur)) =>
          LET rec == load_sites_config(Cur)[last'.domain]
              root_dir == IF "root_dir" \in DOMAIN rec THEN rec["root_dir"] ELSE ""
          IN  /\ root' # root =>
                   /\ last'.arg = "y" /\ root_dir # ""
                   /\ \A r \in Roots : r # root_dir => root'[r] = root[r]
              /\ "rm -rf root" \in CmdsIssued => (last'.arg = "y" /\ root_dir # "")
              /\ ((last'.arg # "y" \/ root_dir = "") /\ last'.exc = "") =>
                   /\ root' = root
                   /\ {"write sites.json", "nginx -t"} \subseteq CmdsIssued ]_vars

\* a.com, whose record has no root_dir, was deleted with the answer y
C34_Witness ==
    /\ last.op = "delete" /\ last.arg = "y" /\ last.ret = "True"
    /\ Did("write sites.json") /\ ~Issued("rm -rf root")
    /\ reg.ok /\ last.domain \notin DOMAIN reg.data
    /\ root[DefaultRoot(last.domain)] # {}

\* C36: add_site(d) leaves every other domain of the persisted registry in
\* it, with the record it had ('enabled', which save never writes, aside),
\* also when sites.json could not be read when add_site started.
C36_AddKeepsOthers ==
    [][ Called("add_site") =>
          \A e \in DOMAIN reg.data \ {last'.domain} :
              /\ e \in DOMAIN reg'.data
              /\ Pop(reg'.data[e], "enabled") = Pop(reg.data[e], "enabled") ]_vars

\* C35: when enable or disable has returned False, the symlink of the domain
\* is present exactly if it was present when the handler was called.
C35_FailureKeepsEnabledState ==
    (last.op \in {"enable", "disable"} /\ last.ret = "False") =>
        (link[last.domain] # NoLink) = (last.preLink # NoLink)

\* C37: every symlink in sites-enabled points at a live config file that
\* exists.
C37_NoDanglingSymlink ==
    \A d \in Domains : link[d] # NoLink => SymlinkResolves(d)

\* C38: every domain of the persisted registry has its live config file in
\* sites-available.
C38_RegisteredHasLiveConfig ==
    reg.ok => \A d \in DOMAIN reg.data : live[d] # NoFile

\* C39: a call of save_nginx_config ends by returning True or False; no
\* exception leaves it, whichever of its writes and copies fails.
C39_SaveNeverRaises ==
    last.op = "save_config" => (last.exc = "" /\ last.ret \in {"True", "False"})

\* C40: delete_site returns True only when its final syntax check and its
\* final reload both succeeded, and returns False when either failed.
C40_DeleteReportsReload ==
    last.op = "delete" =>
        /\ last.ret = "True" => (Did("nginx -t") /\ Did("systemctl reload nginx"))
        /\ (FailedCmd("nginx -t") \/ FailedCmd("systemctl reload nginx"))
             => last.ret = "False"

====
